---------------------------- MODULE Spec2Model ----------------------------
(***************************************************************************)
(* Model of the attribute iterator of quick-xml                            *)
(* (src/events/attributes.rs): struct Attributes and its Iterator::next.   *)
(*                                                                         *)
(* A buffer is a sequence of bytes (their ASCII codes).  The code indexes  *)
(* from 0; the model keeps the code's 0-based offsets and reads byte i of  *)
(* the buffer as bytes[i + 1].                                             *)
(***************************************************************************)
EXTENDS Integers, Sequences, FiniteSets, TLC

VARIABLES
    bytes,        \* Attributes::bytes, the borrowed buffer
    position,     \* Attributes::position
    exit,         \* Attributes::exit
    with_checks,  \* Attributes::with_checks
    consumed,     \* Attributes::consumed, sequence of ranges [start, end)
    start_offset, \* history: the pos argument of Attributes::new
    out,          \* history: one record per call of next, in call order
    entity        \* an Attribute built by a conversion, with the pair it was
                  \* built from and the result of unescaped_value on it

vars == <<bytes, position, exit, with_checks, consumed, start_offset, out,
          entity>>

-----------------------------------------------------------------------------
(* Bounds of the model *)

\* length of the buffers enumerated exhaustively
MaxLen == 3
\* number of attribute-like chunks concatenated into the longer buffers
MaxChunks == 2
\* number of calls of next made on one scanner
MaxCalls == 4
\* length of the texts enumerated exhaustively for the conversions
MaxText == 3

-----------------------------------------------------------------------------
(* Bytes *)

\* b'='
EQ == 61
\* b'\''
SQ == 39
\* b'"'
DQ == 34

\* u8
Byte == 0..255

\* reader::is_whitespace: space, \r, \n, \t
is_whitespace(b) == b \in {32, 13, 10, 9}

\* the bytes a closure of next accepts, as sets
Space == {b \in Byte : is_whitespace(b)}
NonSpace == Byte \ Space

\* the byte at 0-based offset i
At(buf, i) == buf[i + 1]

\* usize cannot represent the index: the slice expression panics
OutOfRange == -2
\* Option::None of an index
NoneIdx == -1

\* bytes[lo..hi] is a legal slice of a buffer of length len
SliceOk(len, lo, hi) == 0 <= lo /\ lo <= hi /\ hi <= len


-----------------------------------------------------------------------------
(* Helpers of the standard library used by next *)

\* slice.iter().position(|&b| b in S) on bytes[lo..hi]: index, relative to
\* lo, of the first byte that is in S
iter_position(buf, lo, hi, S) ==
    IF ~SliceOk(Len(buf), lo, hi) THEN OutOfRange
    ELSE IF \E i \in lo..(hi - 1) : At(buf, i) \in S
         THEN (CHOOSE i \in lo..(hi - 1) :
                  At(buf, i) \in S /\ \A j \in lo..(i - 1) : At(buf, j) \notin S)
              - lo
         ELSE NoneIdx

\* memchr::memchr(needle, &bytes[lo..hi])
memchr(needle, buf, lo, hi) == iter_position(buf, lo, hi, {needle})

\* &self.bytes[lo..hi] as a sequence of bytes
Slice(buf, lo, hi) == SubSeq(buf, lo + 1, hi)

-----------------------------------------------------------------------------
(* The steps of Iterator::next, in the order of the code *)

\* the scanner's fields on entry of next, with the fields of the result
\* still unset; kind "None" is the return value None
Self(pos, ex, cons) ==
    [kind |-> "None", err |-> "", e1 |-> -1, e2 |-> -1,
     start_key |-> -1, end_key |-> -1, eq_pos |-> -1,
     start_val |-> -1, end_val |-> -1,
     position |-> pos, exit |-> ex, consumed |-> cons]

\* variant of error that returns Err(err) and leaves exit as it was
error_keeps_exit(self, err, e1, e2) ==
    [self EXCEPT !.kind = "Err", !.err = err, !.e1 = e1, !.e2 = e2]

\* fn error: sets exit and returns Err(err)
error(self, err, e1, e2) ==
    [self EXCEPT !.kind = "Err", !.err = err, !.e1 = e1, !.e2 = e2,
                 !.exit = TRUE]

\* an index expression of next panicked; the scanner is left as it was
Panic(self) == [self EXCEPT !.kind = "Panic"]

\* variant of exhaust that returns None and leaves the cursor where it was
exhaust_stay(self, len) == self

\* self.position = len; return None
exhaust(self, len) == [self EXCEPT !.position = len]

\* variant of early_return without the test of exit
early_return_len_only(ex, len, p) == len <= p

\* variant of early_return without the test of the cursor against len
early_return_exit_only(ex, len, p) == ex

\* the two early returns: exit is set, or the cursor is at or past the end
early_return(ex, len, p) == ex \/ len <= p

\* "search first space": the offset just after the first whitespace byte of
\* bytes[p..len - 1]
first_space(buf, p) ==
    LET i == iter_position(buf, p, Len(buf) - 1, Space)
    IN  IF i < 0 THEN i ELSE p + i + 1

\* "now search first non space": start_key += position(!is_whitespace)
first_non_space(buf, start_key) ==
    LET i == iter_position(buf, start_key, Len(buf) - 1, NonSpace)
    IN  IF i < 0 THEN i ELSE start_key + i

\* variant of find_end_key that searches from start_key itself
find_end_key_from_start(buf, start_key) ==
    LET i == iter_position(buf, start_key, Len(buf) - 1,
                           {EQ} \cup Space)
    IN  IF i < 0 THEN i ELSE start_key + i

\* "key end with either whitespace or =", searched from start_key + 1
find_end_key(buf, start_key) ==
    LET i == iter_position(buf, start_key + 1, Len(buf) - 1,
                           {EQ} \cup Space)
    IN  IF i < 0 THEN i ELSE start_key + 1 + i

\* variant of name_quote that looks at the first byte of the name only
name_quote_first_byte(buf, start_key, end_key) ==
    iter_position(buf, start_key, start_key + 1, {SQ, DQ})

\* position of the first quote byte of the name, relative to start_key
name_quote(buf, start_key, end_key) ==
    iter_position(buf, start_key, end_key, {SQ, DQ})

\* variant of find_consumed that compares the ranges, not their bytes
find_consumed_by_range(buf, cons, start_key, end_key) ==
    LET same(k) == cons[k] = <<start_key, end_key>>
    IN  IF \E k \in 1..Len(cons) : same(k)
        THEN CHOOSE k \in 1..Len(cons) :
                 same(k) /\ \A j \in 1..(k - 1) : ~same(j)
        ELSE 0

\* self.consumed.iter().find(..): index in consumed of the first recorded
\* range whose bytes equal the name's, 0 when there is none
find_consumed(buf, cons, start_key, end_key) ==
    LET same(k) == Slice(buf, cons[k][1], cons[k][2])
                       = Slice(buf, start_key, end_key)
    IN  IF \E k \in 1..Len(cons) : same(k)
        THEN CHOOSE k \in 1..Len(cons) :
                 same(k) /\ \A j \in 1..(k - 1) : ~same(j)
        ELSE 0

\* variant of find_start_val that searches '=' up to the end of the buffer
find_start_val_to_end(buf, end_key) ==
    LET i == memchr(EQ, buf, end_key, Len(buf))
    IN  IF i < 0 THEN i ELSE end_key + 1 + i

\* "values starts after =": the offset just after the first '=' of
\* bytes[end_key..len - 1]
find_start_val(buf, end_key) ==
    LET i == memchr(EQ, buf, end_key, Len(buf) - 1)
    IN  IF i < 0 THEN i ELSE end_key + 1 + i

\* variant of no_eq_after_name whose slice also holds the '=' byte
no_eq_after_name_with_eq(buf, end_key, start_val) ==
    iter_position(buf, end_key, start_val, NonSpace)

\* first non-whitespace byte of bytes[end_key..start_val - 1], relative
no_eq_after_name(buf, end_key, start_val) ==
    iter_position(buf, end_key, start_val - 1, NonSpace)

\* "value starts with a quote": first non-whitespace byte of
\* bytes[start_val..len - 1], relative to start_val
find_open(buf, start_val) ==
    iter_position(buf, start_val, Len(buf) - 1, NonSpace)

\* variant of find_end_val that stops before the final byte, like the other
\* searches of next
find_end_val_in_window(buf, quote, start_val) ==
    LET i == memchr(quote, buf, start_val, Len(buf) - 1)
    IN  IF i < 0 THEN i ELSE start_val + i

\* "value ends with the same quote": searched in bytes[start_val..], the
\* whole rest of the buffer
find_end_val(buf, quote, start_val) ==
    LET i == memchr(quote, buf, start_val, Len(buf))
    IN  IF i < 0 THEN i ELSE start_val + i

\* variant of advance that leaves the cursor where it was
advance_forgotten(p, end_val) == p

\* variant of advance that also steps over the byte after the closing quote
advance_two(p, end_val) == end_val + 2

\* self.position = end_val + 1, whatever the cursor p was
advance(p, end_val) == end_val + 1

\* variant of check_name that records the name whatever with_checks is
check_name_records_always(self, buf, wc, start_key, end_key) ==
    LET q == name_quote(buf, start_key, end_key)
        k == find_consumed(buf, self.consumed, start_key, end_key)
        pushed == [self EXCEPT !.consumed = Append(@, <<start_key, end_key>>)]
    IN  IF ~wc THEN pushed
        ELSE IF q = OutOfRange THEN Panic(self)
        ELSE IF q >= 0
        THEN error(self, "NameWithQuote", start_key + q, -1)
        ELSE IF k > 0
        THEN error(self, "DuplicatedAttribute",
                   start_key, self.consumed[k][1])
        ELSE pushed

\* variant of check_name that runs the checks whatever with_checks is
check_name_always(self, buf, wc, start_key, end_key) ==
    LET q == name_quote(buf, start_key, end_key)
        k == find_consumed(buf, self.consumed, start_key, end_key)
    IN  IF q = OutOfRange THEN Panic(self)
        ELSE IF q >= 0
        THEN error(self, "NameWithQuote", start_key + q, -1)
        ELSE IF k > 0
        THEN error(self, "DuplicatedAttribute",
                   start_key, self.consumed[k][1])
        ELSE [self EXCEPT !.consumed = Append(@, <<start_key, end_key>>)]

\* if self.with_checks { quote check; duplicate check; consumed.push }
check_name(self, buf, wc, start_key, end_key) ==
    IF ~wc THEN self
    ELSE LET q == name_quote(buf, start_key, end_key)
             k == find_consumed(buf, self.consumed, start_key, end_key)
         IN  IF q = OutOfRange THEN Panic(self)
             ELSE IF q >= 0
             THEN error(self, "NameWithQuote", start_key + q, -1)
             ELSE IF k > 0
             THEN error(self, "DuplicatedAttribute",
                        start_key, self.consumed[k][1])
             ELSE [self EXCEPT
                     !.consumed = Append(@, <<start_key, end_key>>)]

\* variant of check_eq that returns the error of the value step
check_eq_wrong_error(self, buf, wc, end_key, start_val) ==
    IF ~wc THEN self
    ELSE LET i == no_eq_after_name(buf, end_key, start_val)
         IN  IF i = OutOfRange THEN Panic(self)
             ELSE IF i >= 0 THEN error(self, "UnquotedValue", end_key + i, -1)
             ELSE self

\* if self.with_checks { every byte between the name and '=' is whitespace }
check_eq(self, buf, wc, end_key, start_val) ==
    IF ~wc THEN self
    ELSE LET i == no_eq_after_name(buf, end_key, start_val)
         IN  IF i = OutOfRange THEN Panic(self)
             ELSE IF i >= 0 THEN error(self, "NoEqAfterName", end_key + i, -1)
             ELSE self

\* variant of scan_value whose UnquotedValue offset is relative to the slice
scan_value_relative(self, buf, start_val0) ==
    LET len == Len(buf)
        i == find_open(buf, start_val0)
    IN  IF i = OutOfRange THEN Panic(self)
        ELSE IF i = NoneIdx THEN exhaust(self, len)
        ELSE IF At(buf, start_val0 + i) \notin {SQ, DQ}
        THEN error(self, "UnquotedValue", i, -1)
        ELSE LET quote == At(buf, start_val0 + i)
                 start_val == start_val0 + i + 1
                 end_val == find_end_val(buf, quote, start_val)
             IN  IF end_val = OutOfRange THEN Panic(self)
                 ELSE IF end_val = NoneIdx THEN exhaust(self, len)
                 ELSE [self EXCEPT !.kind = "Attr",
                                   !.start_val = start_val,
                                   !.end_val = end_val,
                                   !.position = advance(self.position, end_val)]

\* the value: opening quote, closing quote, cursor move, Some(Ok(Attribute))
scan_value(self, buf, start_val0) ==
    LET len == Len(buf)
        i == find_open(buf, start_val0)
    IN  IF i = OutOfRange THEN Panic(self)
        ELSE IF i = NoneIdx THEN exhaust(self, len)
        ELSE IF At(buf, start_val0 + i) \notin {SQ, DQ}
        THEN error(self, "UnquotedValue", start_val0 + i, -1)
        ELSE LET quote == At(buf, start_val0 + i)
                 start_val == start_val0 + i + 1
                 end_val == find_end_val(buf, quote, start_val)
             IN  IF end_val = OutOfRange THEN Panic(self)
                 ELSE IF end_val = NoneIdx THEN exhaust(self, len)
                 ELSE [self EXCEPT !.kind = "Attr",
                                   !.start_val = start_val,
                                   !.end_val = end_val,
                                   !.position = advance(self.position, end_val)]

\* from the end of the name on: name checks, '=', value
scan_from_name(self0, buf, wc, start_key, end_key) ==
    LET self1 == [self0 EXCEPT !.start_key = start_key, !.end_key = end_key]
        self2 == check_name(self1, buf, wc, start_key, end_key)
    IN  IF self2.kind # "None" THEN self2
        ELSE LET start_val == find_start_val(buf, end_key)
             IN  IF start_val = OutOfRange THEN Panic(self2)
                 ELSE IF start_val = NoneIdx THEN exhaust(self2, Len(buf))
                 ELSE LET self3 == [self2 EXCEPT !.eq_pos = start_val - 1]
                          self4 == check_eq(self3, buf, wc, end_key, start_val)
                      IN  IF self4.kind # "None" THEN self4
                          ELSE scan_value(self4, buf, start_val)

\* Iterator::next for Attributes: the result and the scanner's fields after
\* the call
Attributes_next(buf, pos, ex, wc, cons) ==
    LET self == Self(pos, ex, cons)
        len == Len(buf)
        p == pos
    IN  IF early_return(ex, len, p) THEN self
        ELSE LET sp == first_space(buf, p)
             IN  IF sp = OutOfRange THEN Panic(self)
                 ELSE IF sp = NoneIdx THEN exhaust(self, len)
                 ELSE LET start_key == first_non_space(buf, sp)
                      IN  IF start_key = OutOfRange THEN Panic(self)
                          ELSE IF start_key = NoneIdx THEN exhaust(self, len)
                          ELSE LET end_key == find_end_key(buf, start_key)
                               IN  IF end_key = OutOfRange THEN Panic(self)
                                   ELSE IF end_key = NoneIdx
                                   THEN exhaust(self, len)
                                   ELSE scan_from_name(self, buf, wc,
                                                       start_key, end_key)

-----------------------------------------------------------------------------
(* The Attribute entity and its conversions *)

\* escape::escape of one byte: the five predefined entities of XML
escape_byte(b) ==
    CASE b = 38 -> <<38, 97, 109, 112, 59>>          \* &  &amp;
      [] b = 60 -> <<38, 108, 116, 59>>              \* <  &lt;
      [] b = 62 -> <<38, 103, 116, 59>>              \* >  &gt;
      [] b = SQ -> <<38, 97, 112, 111, 115, 59>>     \* '  &apos;
      [] b = DQ -> <<38, 113, 117, 111, 116, 59>>    \* "  &quot;
      [] OTHER -> <<b>>

\* escape::escape
RECURSIVE escape(_)
escape(s) ==
    IF s = <<>> THEN <<>> ELSE escape_byte(Head(s)) \o escape(Tail(s))

\* the byte an entity name stands for, -1 for a name that is no entity
entity_byte(name) ==
    CASE name = <<97, 109, 112>> -> 38
      [] name = <<108, 116>> -> 60
      [] name = <<103, 116>> -> 62
      [] name = <<97, 112, 111, 115>> -> SQ
      [] name = <<113, 117, 111, 116>> -> DQ
      [] OTHER -> -1

\* escape::unescape: Ok(bytes) with every entity reference resolved, Err for
\* a reference that is not terminated by ';' or names no entity
RECURSIVE unescape(_)
unescape(s) ==
    IF s = <<>> THEN [ok |-> TRUE, bytes |-> <<>>]
    ELSE IF Head(s) # 38
    THEN LET rest == unescape(Tail(s))
         IN  IF rest.ok THEN [ok |-> TRUE, bytes |-> <<Head(s)>> \o rest.bytes]
             ELSE rest
    ELSE LET semi == memchr(59, s, 1, Len(s))
         IN  IF semi < 0 THEN [ok |-> FALSE, bytes |-> <<>>]
             ELSE LET b == entity_byte(Slice(s, 1, 1 + semi))
                      rest == unescape(SubSeq(s, semi + 3, Len(s)))
                  IN  IF b < 0 \/ ~rest.ok THEN [ok |-> FALSE, bytes |-> <<>>]
                      ELSE [ok |-> TRUE, bytes |-> <<b>> \o rest.bytes]

\* impl From<(&[u8], &[u8])> for Attribute
Attribute_from_bytes(k, v) == [key |-> k, value |-> v]

\* variant of the text conversion that stores the value as it is
Attribute_from_str_raw(k, v) == [key |-> k, value |-> v]

\* impl From<(&str, &str)> for Attribute
Attribute_from_str(k, v) == [key |-> k, value |-> escape(v)]

\* Attribute::unescaped_value
unescaped_value(attr) == unescape(attr.value)

\* no conversion was made
NoEntity == [from |-> "none"]

-----------------------------------------------------------------------------
(* The buffers a scanner is constructed over *)

\* bytes of the exhaustively enumerated buffers: space, '"', '\'', '=', 'a'
Alphabet == {32, DQ, SQ, EQ, 97}

SmallBuffers == UNION {[1..n -> Alphabet] : n \in 0..MaxLen}

\* attribute-like pieces of a tag
Chunks ==
    { <<32, 97, 61, 39, 39>>,            \*  a=''
      <<32, 98, 61, 34, 50, 34>>,        \*  b="2"
      <<10, 98, 32, 61, 32, 34, 39, 34>>,\* \nb = "'"
      <<32, 97, 61, 32, 49>>,            \*  a= 1
      <<32, 97, 32, 98, 61, 39, 39>>,    \*  a b=''
      <<32, 97, 39, 61, 34, 34>>,        \*  a'=""
      <<32, 61, 61, 39, 39>>,            \*  ==''
      <<32>> }                           \* one space

RECURSIVE Flatten(_)
Flatten(ss) == IF ss = <<>> THEN <<>> ELSE Head(ss) \o Flatten(Tail(ss))

ChunkBuffers ==
    {Flatten(cs) : cs \in UNION {[1..n -> Chunks] : n \in 0..MaxChunks}}

\* the inputs of the specification's examples, a tag whose third name
\* repeats its second, a tag whose last value is not closed, and a name
\* whose '=' is the final byte
Examples ==
    { <<32, 97, 61, 39, 49, 39, 32, 97, 61, 39, 50, 39>>,  \*  a='1' a='2'
      <<32, 98, 61, 34, 34, 32, 97, 61, 39, 39, 32, 97, 61, 39, 39>>,
                                                     \*  b="" a='' a=''
      <<32, 97, 61, 39, 49, 39, 32, 98, 61, 34, 50, 34,
        32, 99, 61, 39, 51, 39>>,                    \*  a='1' b="2" c='3'
      <<32, 97, 61, 39, 49, 39, 32, 98, 61, 34, 50>>,      \*  a='1' b="2
      <<32, 97, 32, 61>>,                            \*  a =
      <<32, 97, 61, 49, 32>> }                       \*  a=1 and a space

Buffers == SmallBuffers \cup ChunkBuffers \cup Examples

-----------------------------------------------------------------------------
(* The scanner *)

\* Attributes::new(buf, pos): any buffer, any offset up to one past its length
Init ==
    /\ bytes \in Buffers
    /\ start_offset \in 0..(Len(bytes) + 1)
    /\ position = start_offset
    /\ exit = FALSE
    /\ with_checks = TRUE
    /\ consumed = <<>>
    /\ out = <<>>
    /\ entity = NoEntity

\* Attributes::with_checks(val)
WithChecks(val) ==
    /\ with_checks' = val
    /\ UNCHANGED <<bytes, position, exit, consumed, start_offset, out, entity>>

\* one call of Iterator::next; out records the call: the fields on entry
\* (p, wc, seen) and the result with the fields on return
Next_call ==
    /\ Len(out) < MaxCalls
    /\ LET r == Attributes_next(bytes, position, exit, with_checks, consumed)
       IN  /\ position' = r.position
           /\ exit' = r.exit
           /\ consumed' = r.consumed
           /\ out' = Append(out, [p |-> position, wc |-> with_checks,
                                  was_exit |-> exit, seen |-> consumed,
                                  r |-> r])
    /\ UNCHANGED <<bytes, with_checks, start_offset, entity>>

Next ==
    \/ \E val \in BOOLEAN : WithChecks(val)
    \/ Next_call

Spec == Init /\ [][Next]_vars

-----------------------------------------------------------------------------
(* The conversions, on their own *)

\* bytes of the exhaustively enumerated texts: & < > ' " a ;
TextAlphabet == {38, 60, 62, SQ, DQ, 97, 59}

\* val & more
ExampleText == <<118, 97, 108, 32, 38, 32, 109, 111, 114, 101>>
\* val &amp; more
ExampleEscaped ==
    <<118, 97, 108, 32, 38, 97, 109, 112, 59, 32, 109, 111, 114, 101>>

Texts ==
    UNION {[1..n -> TextAlphabet] : n \in 0..MaxText}
        \cup {ExampleText, ExampleEscaped, <<38, 97, 109, 112, 59>>}

\* the keys: empty, a, &
Keys == {<<>>, <<97>>, <<38>>}

\* no scanner is used
EntityInit ==
    /\ bytes = <<>>
    /\ start_offset = 0
    /\ position = 0
    /\ exit = FALSE
    /\ with_checks = TRUE
    /\ consumed = <<>>
    /\ out = <<>>
    /\ entity = NoEntity

\* Attribute::from((k, v)) for a pair of byte slices; an Attribute is built
\* once and not changed afterwards
FromBytes(k, v) ==
    /\ entity = NoEntity
    /\ entity' = [from |-> "bytes", k |-> k, v |-> v,
                  attr |-> Attribute_from_bytes(k, v),
                  called |-> FALSE, unescaped |-> [ok |-> FALSE, bytes |-> <<>>]]
    /\ UNCHANGED <<bytes, position, exit, with_checks, consumed,
                   start_offset, out>>

\* Attribute::from((k, v)) for a pair of texts
FromStr(k, v) ==
    /\ entity = NoEntity
    /\ entity' = [from |-> "str", k |-> k, v |-> v,
                  attr |-> Attribute_from_str(k, v),
                  called |-> FALSE, unescaped |-> [ok |-> FALSE, bytes |-> <<>>]]
    /\ UNCHANGED <<bytes, position, exit, with_checks, consumed,
                   start_offset, out>>

\* attr.unescaped_value()
UnescapedValue ==
    /\ entity.from # "none"
    /\ ~entity.called
    /\ entity' = [entity EXCEPT !.called = TRUE,
                                !.unescaped = unescaped_value(entity.attr)]
    /\ UNCHANGED <<bytes, position, exit, with_checks, consumed,
                   start_offset, out>>

EntityNext ==
    \/ \E k \in Keys, v \in Texts : FromBytes(k, v)
    \/ \E k \in Keys, v \in Texts : FromStr(k, v)
    \/ UnescapedValue

EntitySpec == EntityInit /\ [][EntityNext]_vars

-----------------------------------------------------------------------------
(* Reading the history *)

Calls == 1..Len(out)
IsAttr(i) == out[i].r.kind = "Attr"
IsErr(i) == out[i].r.kind = "Err"
IsNone(i) == out[i].r.kind = "None"
ErrIs(i, e) == IsErr(i) /\ out[i].r.err = e

\* the bytes of the name scanned by call i, and of the key and value it yields
Key(i) == Slice(bytes, out[i].r.start_key, out[i].r.end_key)
Value(i) == Slice(bytes, out[i].r.start_val, out[i].r.end_val)
HasQuote(s) == \E k \in 1..Len(s) : s[k] \in {SQ, DQ}

\* call i scanned a name: it found where the name starts and where it ends
ScannedName(i) == out[i].r.start_key >= 0 /\ out[i].r.end_key >= 0

ExampleDup == <<32, 97, 61, 39, 49, 39, 32, 97, 61, 39, 50, 39>>
ExampleThree ==
    <<32, 97, 61, 39, 49, 39, 32, 98, 61, 34, 50, 34, 32, 99, 61, 39, 51, 39>>
ExampleUnquoted == <<32, 97, 61, 49, 32>>

-----------------------------------------------------------------------------
(* C1 *)

\* C1: after next returned an error, every later call of next on the same
\* scanner returns None (no attribute, no further error), whatever the buffer
\* and whatever with_checks calls came in between.
C1_ErrorThenNone ==
    \A i, j \in Calls : (i < j /\ IsErr(i)) => IsNone(j)

\* a duplicate-name error followed by two calls, enforcement switched off and
\* on again in between
C1_Witness ==
    \E i \in Calls :
        /\ ErrIs(i, "DuplicatedAttribute")
        /\ i + 2 \in Calls
        /\ ~out[i + 1].wc
        /\ out[i + 2].wc

-----------------------------------------------------------------------------
(* C2 *)

\* C2: once next returned None, every later call returns None and position
\* no longer changes, for any buffer, start offset and enforcement setting.
C2_NoneIsFinal ==
    /\ \A i, j \in Calls :
          (i < j /\ IsNone(i)) =>
              /\ IsNone(j)
              /\ out[j].r.position = out[i].r.position
    /\ \A i \in Calls : IsNone(i) => position = out[i].r.position

\* a None returned in the middle of the buffer, then a call made under the
\* other enforcement setting
C2_Witness ==
    \E i \in Calls :
        /\ IsNone(i)
        /\ out[i].p < Len(bytes)
        /\ out[i].p > start_offset
        /\ i + 1 \in Calls
        /\ out[i + 1].wc # out[i].wc

-----------------------------------------------------------------------------
(* C3 *)

\* the recorded ranges, on entry of call i, whose bytes equal the name scanned
EqualSeen(i) ==
    {k \in 1..Len(out[i].seen) :
        Slice(bytes, out[i].seen[k][1], out[i].seen[k][2]) = Key(i)}

\* C3: with enforcement on, a scanned name byte-equal to a name recorded by an
\* earlier call makes next return DuplicatedAttribute with the start of the
\* current name and the start of the first recorded equal name; no attribute
\* is yielded and the range is not recorded.
C3_Duplicate ==
    \A i \in Calls :
        (out[i].wc /\ ScannedName(i) /\ EqualSeen(i) # {}) =>
            /\ ErrIs(i, "DuplicatedAttribute")
            /\ out[i].r.e1 = out[i].r.start_key
            /\ \A k \in EqualSeen(i) :
                  (\A j \in EqualSeen(i) : k <= j) =>
                      out[i].r.e2 = out[i].seen[k][1]
            /\ out[i].r.consumed = out[i].seen

\* the third name of a tag repeats the second: two names are recorded and the
\* equal one is not the first of them
C3_Witness ==
    \E i \in Calls :
        /\ out[i].wc
        /\ ScannedName(i)
        /\ Len(out[i].seen) = 2
        /\ EqualSeen(i) = {2}

-----------------------------------------------------------------------------
(* C4 *)

AllChecksOff == \A i \in Calls : ~out[i].wc

\* C4: with enforcement off on every call, next never returns
\* DuplicatedAttribute and records nothing; on " a='1' a='2'" read from
\* offset 0 the first call yields key a, value 1 and the second key a, value 2.
C4_NoChecksNoDuplicate ==
    AllChecksOff =>
        /\ \A i \in Calls : ~ErrIs(i, "DuplicatedAttribute")
        /\ consumed = <<>>
        /\ (bytes = ExampleDup /\ start_offset = 0) =>
              /\ 1 \in Calls =>
                    IsAttr(1) /\ Key(1) = <<97>> /\ Value(1) = <<49>>
              /\ 2 \in Calls =>
                    IsAttr(2) /\ Key(2) = <<97>> /\ Value(2) = <<50>>

\* two attributes with byte-equal names yielded one after the other
C4_Witness ==
    /\ AllChecksOff
    /\ \E i \in Calls :
          /\ i + 1 \in Calls
          /\ IsAttr(i) /\ IsAttr(i + 1)
          /\ Key(i) = Key(i + 1)
          /\ Value(i) # Value(i + 1)

-----------------------------------------------------------------------------
(* C5 *)

\* the first offset at or after i whose byte is not in S, Len(buf) when
\* every byte from i on is in S
RunEnd(buf, i, S) ==
    IF \E j \in i..(Len(buf) - 1) : At(buf, j) \notin S
    THEN CHOOSE j \in i..(Len(buf) - 1) :
             At(buf, j) \notin S /\ \A k \in i..(j - 1) : At(buf, k) \in S
    ELSE Len(buf)

NameBytes == {b \in Byte : ~is_whitespace(b) /\ b \notin {EQ, SQ, DQ}}

\* the region of buf from offset i read as a list of attributes, each of the
\* form whitespace, name, '=', quoted value: ok tells whether the whole
\* region has that form, attrs lists <<name start, name end, value start,
\* value end>> of each attribute
RECURSIVE ReadList(_, _)
ReadList(buf, i) ==
    IF i >= Len(buf) THEN [ok |-> i = Len(buf), attrs |-> <<>>]
    ELSE LET len == Len(buf)
             ns == RunEnd(buf, i, Space)
             ne == RunEnd(buf, ns, NameBytes)
             vs == ne + 2
             ve == RunEnd(buf, vs, Byte \ {At(buf, ne + 1)})
         IN  IF /\ i < ns /\ ns < ne
                /\ ne + 1 < len
                /\ At(buf, ne) = EQ
                /\ At(buf, ne + 1) \in {SQ, DQ}
                /\ ve < len
             THEN LET rest == ReadList(buf, ve + 1)
                  IN  [ok |-> rest.ok,
                       attrs |-> <<(<<ns, ne, vs, ve>>)>> \o rest.attrs]
             ELSE [ok |-> FALSE, attrs |-> <<>>]

DistinctNames(buf, attrs) ==
    \A a, b \in 1..Len(attrs) :
        a # b => Slice(buf, attrs[a][1], attrs[a][2])
                   # Slice(buf, attrs[b][1], attrs[b][2])

\* the attributes of a buffer that is a well-formed list with distinct names
WellFormed == ReadList(bytes, start_offset)
IsWellFormed == WellFormed.ok /\ DistinctNames(bytes, WellFormed.attrs)

\* C5: on a buffer whose region from the start offset is a list of n
\* attributes (whitespace, name, '=', quoted value; distinct names without
\* quote, '=' or whitespace; values without their own quote), the calls of
\* next yield those n attributes in buffer order, key and value being the name
\* bytes and the bytes between the quotes, and every call after the n-th
\* returns None.
C5_WellFormedList ==
    IsWellFormed =>
        \A i \in Calls :
            IF i <= Len(WellFormed.attrs)
            THEN /\ IsAttr(i)
                 /\ <<out[i].r.start_key, out[i].r.end_key,
                      out[i].r.start_val, out[i].r.end_val>>
                        = WellFormed.attrs[i]
                 /\ Key(i) = Slice(bytes, WellFormed.attrs[i][1],
                                   WellFormed.attrs[i][2])
                 /\ Value(i) = Slice(bytes, WellFormed.attrs[i][3],
                                     WellFormed.attrs[i][4])
            ELSE IsNone(i)

\* the three attributes of a='1' b="2" c='3', then the call after them
C5_Witness ==
    /\ IsWellFormed
    /\ Len(WellFormed.attrs) = 3
    /\ Len(out) = 4
    /\ \E i \in Calls : At(bytes, out[i].r.start_val - 1) = DQ
    /\ \E i \in Calls : At(bytes, out[i].r.start_val - 1) = SQ

-----------------------------------------------------------------------------
(* C6 *)

\* call i came to look for the opening quote: it found '=' and did not stop
\* at the bytes between the name and '='
ReachedValue(i) ==
    out[i].r.eq_pos >= 0 /\ ~ErrIs(i, "NoEqAfterName")

\* the offsets of the non-whitespace bytes after '=' inside the window
AfterEq(i) ==
    {j \in (out[i].r.eq_pos + 1)..(Len(bytes) - 2) :
        ~is_whitespace(At(bytes, j))}

\* C6: when the first non-whitespace byte after '=' inside the window
\* [.., len - 1) is not a quote, next returns UnquotedValue with the absolute
\* offset of that byte and yields no attribute; for " a=1 " that is offset 3.
C6_UnquotedValue ==
    /\ \A i \in Calls :
          ReachedValue(i) =>
              \A j \in AfterEq(i) :
                  ((\A k \in AfterEq(i) : j <= k) /\ At(bytes, j) \notin {SQ, DQ})
                      => ErrIs(i, "UnquotedValue") /\ out[i].r.e1 = j
    /\ (bytes = ExampleUnquoted /\ start_offset = 0 /\ 1 \in Calls) =>
          ErrIs(1, "UnquotedValue") /\ out[1].r.e1 = 3

\* an unquoted value found behind whitespace after '='
C6_Witness ==
    \E i \in Calls :
        /\ ReachedValue(i)
        /\ \E j \in AfterEq(i) :
              /\ \A k \in AfterEq(i) : j <= k
              /\ At(bytes, j) \notin {SQ, DQ}
              /\ j > out[i].r.eq_pos + 1

-----------------------------------------------------------------------------
(* C7 *)

\* C7: for a start offset within the buffer, the key and value ranges of the
\* attributes one scanner yields lie in [start_offset, len), the key before
\* its value, and each attribute after the one yielded before it.
C7_RangesOrdered ==
    start_offset <= Len(bytes) =>
        /\ \A i \in Calls :
              IsAttr(i) =>
                  /\ start_offset <= out[i].r.start_key
                  /\ out[i].r.start_key < out[i].r.end_key
                  /\ out[i].r.end_key < out[i].r.start_val
                  /\ out[i].r.start_val <= out[i].r.end_val
                  /\ out[i].r.end_val < Len(bytes)
        /\ \A i, j \in Calls :
              (i < j /\ IsAttr(i) /\ IsAttr(j)) =>
                  out[i].r.end_val < out[j].r.start_key

\* two attributes, the first with an empty value, from a start offset inside
\* the buffer
C7_Witness ==
    /\ 0 < start_offset
    /\ \E i, j \in Calls :
          /\ i < j /\ IsAttr(i) /\ IsAttr(j)
          /\ out[i].r.start_val = out[i].r.end_val

-----------------------------------------------------------------------------
(* C8 *)

\* C8: every attribute yielded has a non-empty key.
C8_KeyNotEmpty ==
    \A i \in Calls : IsAttr(i) => Len(Key(i)) >= 1

\* an attribute whose name starts at a '=' byte
C8_Witness ==
    \E i \in Calls : IsAttr(i) /\ At(bytes, out[i].r.start_key) = EQ

-----------------------------------------------------------------------------
(* C9 *)

\* C9 as stated: no yielded key contains a quote byte, whatever the
\* enforcement setting.
C9_KeyNeverHasQuote ==
    \A i \in Calls : IsAttr(i) => ~HasQuote(Key(i))

\* C9, amended: a call made with enforcement on yields no key with a quote
\* byte: it rejects a scanned name that contains one with NameWithQuote.
C9_KeyHasNoQuoteWhenChecked ==
    \A i \in Calls :
        out[i].wc =>
            /\ IsAttr(i) => ~HasQuote(Key(i))
            /\ (ScannedName(i) /\ HasQuote(Key(i))) =>
                  ErrIs(i, "NameWithQuote")

\* with enforcement on, a name whose quote is not its first byte
C9_Witness ==
    \E i \in Calls :
        /\ out[i].wc
        /\ ScannedName(i)
        /\ HasQuote(Key(i))
        /\ At(bytes, out[i].r.start_key) \notin {SQ, DQ}

-----------------------------------------------------------------------------
(* C10 *)

\* C10: a scanner constructed with start_offset <= len keeps position <= len
\* in every reachable state.
C10_PositionInBuffer ==
    start_offset <= Len(bytes) => position <= Len(bytes)

\* the cursor at the end of the buffer after a value closed by its final byte
C10_Witness ==
    /\ start_offset < Len(bytes)
    /\ position = Len(bytes)
    /\ \E i \in Calls : IsAttr(i) /\ out[i].r.end_val = Len(bytes) - 1

-----------------------------------------------------------------------------
(* C11 *)

\* call i scanned a name that passed the name checks
NamePassed(i) ==
    /\ ScannedName(i)
    /\ ~ErrIs(i, "NameWithQuote")
    /\ ~ErrIs(i, "DuplicatedAttribute")

\* the offsets of the '=' bytes at or after offset from, inside the window
EqAfter(from) ==
    {j \in from..(Len(bytes) - 2) : At(bytes, j) = EQ}

\* the least element of a non-empty set of offsets
Least(S) == CHOOSE j \in S : \A k \in S : j <= k

\* the first '=' at or after the end of call i's name, inside the window
EqOf(i) == Least(EqAfter(out[i].r.end_key))

\* call i came to a '=': with enforcement on, only whitespace lies between
\* the name and that '='
CameToEq(i) ==
    /\ NamePassed(i)
    /\ EqAfter(out[i].r.end_key) # {}
    /\ out[i].wc => \A j \in out[i].r.end_key..(EqOf(i) - 1) :
                        is_whitespace(At(bytes, j))

\* the offsets of the non-whitespace bytes after offset e inside the window
OpenAfter(e) ==
    {j \in (e + 1)..(Len(bytes) - 2) : ~is_whitespace(At(bytes, j))}

\* the buffer runs out while call i looks for '='
RunsOutAtEq(i) == NamePassed(i) /\ EqAfter(out[i].r.end_key) = {}

\* the buffer runs out while call i looks for the opening quote
RunsOutAtOpen(i) == CameToEq(i) /\ OpenAfter(EqOf(i)) = {}

\* the buffer runs out while call i looks for the closing quote
RunsOutAtClose(i) ==
    /\ CameToEq(i)
    /\ OpenAfter(EqOf(i)) # {}
    /\ LET o == Least(OpenAfter(EqOf(i)))
       IN  /\ At(bytes, o) \in {SQ, DQ}
           /\ \A j \in (o + 1)..(Len(bytes) - 1) :
                  At(bytes, j) # At(bytes, o)

\* C11: when the buffer runs out in the middle of an attribute whose name
\* passed the name checks (no '=' after the name, no opening quote before the
\* end of the window, or no closing quote matching the opening one), next
\* returns None, not an error, and moves position to the buffer's length.
C11_RunsOutIsNone ==
    \A i \in Calls :
        (RunsOutAtEq(i) \/ RunsOutAtOpen(i) \/ RunsOutAtClose(i)) =>
            IsNone(i) /\ out[i].r.position = Len(bytes)

\* a second attribute whose value is opened and never closed, the cursor
\* being moved from inside the buffer to its end
C11_Witness ==
    \E i \in Calls :
        /\ i > 1
        /\ RunsOutAtClose(i)
        /\ out[i].p < Len(bytes)

-----------------------------------------------------------------------------
(* C12 *)

\* the offset of the final byte of the buffer
Final == Len(bytes) - 1

\* C12: the final byte of the buffer is no byte of a yielded key or value, no
\* name byte, not the '=' and not an opening quote; of the offsets a call
\* uses, only the closing quote of a value can be the final byte.
C12_FinalByteReserved ==
    \A i \in Calls :
        /\ ScannedName(i) =>
              \A j \in out[i].r.start_key..(out[i].r.end_key - 1) : j # Final
        /\ out[i].r.eq_pos >= 0 => out[i].r.eq_pos # Final
        /\ IsAttr(i) =>
              /\ out[i].r.start_val - 1 # Final
              /\ \A j \in out[i].r.start_val..(out[i].r.end_val - 1) :
                    j # Final
              /\ out[i].r.end_key <= Final
              /\ out[i].r.end_val <= Final

\* a value closed by the final byte of the buffer
C12_Witness ==
    \E i \in Calls :
        /\ IsAttr(i)
        /\ out[i].r.end_val = Final
        /\ out[i].r.start_val < out[i].r.end_val

-----------------------------------------------------------------------------
(* C13 *)

\* the offsets of the non-whitespace bytes between the end of the name of
\* call i and the next '=' inside the window
Between(i) ==
    IF NamePassed(i) /\ EqAfter(out[i].r.end_key) # {}
    THEN {j \in out[i].r.end_key..(Least(EqAfter(out[i].r.end_key)) - 1) :
             ~is_whitespace(At(bytes, j))}
    ELSE {}

\* C13: with enforcement on, a non-whitespace byte between the end of the
\* name and the next '=' makes next return NoEqAfterName with the absolute
\* offset of the first such byte, and no attribute; NoEqAfterName is returned
\* in no other case, and with enforcement off those bytes are not checked.
C13_NoEqAfterName ==
    \A i \in Calls :
        /\ (out[i].wc /\ Between(i) # {}) =>
              ErrIs(i, "NoEqAfterName") /\ out[i].r.e1 = Least(Between(i))
        /\ ErrIs(i, "NoEqAfterName") => out[i].wc /\ Between(i) # {}
        /\ (~out[i].wc /\ Between(i) # {}) =>
              /\ ~IsErr(i) \/ ErrIs(i, "UnquotedValue")
              /\ out[i].r.eq_pos = Least(EqAfter(out[i].r.end_key))

\* a second name between the name and '=', met with enforcement on by a
\* scanner that has yielded an attribute before
C13_Witness ==
    \E i \in Calls :
        /\ i > 1
        /\ out[i].wc
        /\ Between(i) # {}
        /\ Least(Between(i)) > out[i].r.end_key

-----------------------------------------------------------------------------
(* C14 *)

\* the cursor, the exit flag and the recorded ranges a call of next finds are
\* those the call before it left (those of new for the first call), whatever
\* with_checks calls were made in between, and the scanner's fields are those
\* the last call left
FieldsKept ==
    /\ \A i \in Calls :
          IF i = 1
          THEN /\ out[i].p = start_offset
               /\ out[i].was_exit = FALSE
               /\ out[i].seen = <<>>
          ELSE /\ out[i].p = out[i - 1].r.position
               /\ out[i].was_exit = out[i - 1].r.exit
               /\ out[i].seen = out[i - 1].r.consumed
    /\ IF out = <<>>
       THEN position = start_offset /\ exit = FALSE /\ consumed = <<>>
       ELSE /\ position = out[Len(out)].r.position
            /\ exit = out[Len(out)].r.exit
            /\ consumed = out[Len(out)].r.consumed

\* C14: with_checks changes the enforcement flag only: position, exit and the
\* recorded ranges are left as they were.  Names are recorded only by calls
\* made with enforcement on: a call made with enforcement off records
\* nothing, and DuplicatedAttribute is returned only for a name byte-equal to
\* one scanned by an earlier call made with enforcement on.
C14_ChecksFlagOnly ==
    /\ FieldsKept
    /\ \A i \in Calls :
          /\ ~out[i].wc => out[i].r.consumed = out[i].seen
          /\ ErrIs(i, "DuplicatedAttribute") =>
                \E h \in 1..(i - 1) :
                    /\ out[h].wc
                    /\ IsAttr(h)
                    /\ Key(h) = Key(i)

\* a name yielded with enforcement off, then a byte-equal name scanned with
\* enforcement on
C14_Witness ==
    \E i \in Calls :
        /\ i + 1 \in Calls
        /\ ~out[i].wc /\ IsAttr(i)
        /\ out[i + 1].wc /\ ScannedName(i + 1)
        /\ Key(i + 1) = Key(i)
        /\ IsAttr(i + 1)

-----------------------------------------------------------------------------
(* C15 *)

\* C15: the Attribute built from a text pair (k, v) has key k and value
\* escape(v), and unescaped_value on it returns v; the Attribute built from a
\* pair of byte slices has that key and that value, unchanged.  "val & more"
\* is stored as "val &amp; more", which unescapes to "val & more".
C15_RoundTrip ==
    /\ entity.from = "str" =>
          /\ entity.attr.key = entity.k
          /\ entity.attr.value = escape(entity.v)
          /\ entity.v = ExampleText => entity.attr.value = ExampleEscaped
          /\ entity.called =>
                entity.unescaped = [ok |-> TRUE, bytes |-> entity.v]
    /\ entity.from = "bytes" =>
          /\ entity.attr.key = entity.k
          /\ entity.attr.value = entity.v
          /\ (entity.v = ExampleEscaped /\ entity.called) =>
                entity.unescaped = [ok |-> TRUE, bytes |-> ExampleText]

\* a text with a key that holds '&' and a value that reads as an entity
\* reference, built and unescaped
C15_Witness ==
    /\ entity.from = "str"
    /\ entity.k = <<38>>
    /\ entity.v = <<38, 97, 109, 112, 59>>
    /\ entity.called

-----------------------------------------------------------------------------
(* C16 *)

\* what a call returned: None, or an error with its offsets, or an attribute
\* with its key and value ranges
Outcome(i) ==
    [kind |-> out[i].r.kind, err |-> out[i].r.err,
     e1 |-> out[i].r.e1, e2 |-> out[i].r.e2,
     key |-> IF IsAttr(i) THEN <<out[i].r.start_key, out[i].r.end_key>>
             ELSE <<>>,
     value |-> IF IsAttr(i) THEN <<out[i].r.start_val, out[i].r.end_val>>
               ELSE <<>>]

\* C16 as stated: once a call returned an error or None, every later call
\* returns that same outcome again, the error after an error.
C16_SameOutcomeAgain ==
    \A i, j \in Calls :
        (i < j /\ (IsErr(i) \/ IsNone(i))) => Outcome(j) = Outcome(i)

\* C16, amended: once a call returned an error or None, every later call
\* returns None, also after an error, and leaves the scanner's cursor, exit
\* flag and recorded ranges as they were.
C16_TerminalThenNone ==
    \A i, j \in Calls :
        (i < j /\ (IsErr(i) \/ IsNone(i))) =>
            /\ IsNone(j)
            /\ out[j].r.position = out[i].r.position
            /\ out[j].r.exit = out[i].r.exit
            /\ out[j].r.consumed = out[i].r.consumed

\* an error about the bytes before '=' or about the value, then another call
C16_Witness ==
    \E i \in Calls :
        /\ ErrIs(i, "NoEqAfterName") \/ ErrIs(i, "UnquotedValue")
        /\ out[i].r.position < Len(bytes)
        /\ i + 1 \in Calls

-----------------------------------------------------------------------------
(* C17 *)

\* the offsets from offset from on, inside the window, whose byte is '=' or
\* whitespace
NameEnds(from) ==
    {j \in from..(Len(bytes) - 2) :
        At(bytes, j) = EQ \/ is_whitespace(At(bytes, j))}

\* C17 as stated: the end of the name is the first '=' or whitespace byte at
\* or after the start of the name, so that a name starting at '=' ends there.
C17_EndSearchedFromStart ==
    \A i \in Calls :
        ScannedName(i) =>
            /\ NameEnds(out[i].r.start_key) # {}
            /\ out[i].r.end_key = Least(NameEnds(out[i].r.start_key))

\* C17, amended: the end of the name is the first '=' or whitespace byte
\* after the first byte of the name, inside the window; the first byte of the
\* name belongs to the name whatever it is, also when it is '='.
C17_EndSearchedAfterStart ==
    \A i \in Calls :
        ScannedName(i) =>
            /\ NameEnds(out[i].r.start_key + 1) # {}
            /\ out[i].r.end_key = Least(NameEnds(out[i].r.start_key + 1))
            /\ out[i].r.end_key > out[i].r.start_key

\* an attribute yielded under the key "=": the name starts at a '=' byte and
\* ends at the next one
C17_Witness ==
    \E i \in Calls :
        /\ IsAttr(i)
        /\ Key(i) = <<EQ>>
        /\ At(bytes, out[i].r.end_key) = EQ

-----------------------------------------------------------------------------
(* C18 *)

\* the calls that yielded an item, an attribute or an error
Yielding == {i \in Calls : ~IsNone(i)}

\* C18: a call of next that yields an attribute moves position forward, no
\* call moves it backward, and a call can yield only while position is
\* before the end of the buffer; so the items yielded are never more than
\* the bytes of the buffer and the calls after them return None.
C18_Progress ==
    /\ \A i \in Calls :
          /\ out[i].r.position >= out[i].p
          /\ IsAttr(i) => out[i].r.position > out[i].p
          /\ ~IsNone(i) => out[i].p < Len(bytes)
          /\ IsErr(i) => \A j \in Calls : j > i => IsNone(j)
    /\ Cardinality(Yielding) <= Len(bytes)

\* three attributes yielded, each from a cursor further on, then None
C18_Witness ==
    /\ Len(out) = 4
    /\ IsAttr(1) /\ IsAttr(2) /\ IsAttr(3) /\ IsNone(4)
    /\ out[1].p < out[2].p /\ out[2].p < out[3].p /\ out[3].p < out[4].p

-----------------------------------------------------------------------------
(* C19 *)

\* C19: for every buffer, the empty and the one-byte buffer included, and
\* every start offset, also one beyond the buffer, no index expression of
\* next is out of range and neither len - 1 nor start_val - 1 underflows:
\* every slice taken has lower bound <= upper bound <= len, and every
\* recorded name range has start < end < len.
C19_NoPanic ==
    /\ \A i \in Calls :
          /\ out[i].r.kind # "Panic"
          /\ (~out[i].was_exit /\ out[i].p < Len(bytes)) =>
                SliceOk(Len(bytes), out[i].p, Len(bytes) - 1)
          /\ ScannedName(i) =>
                /\ SliceOk(Len(bytes), out[i].r.start_key + 1, Len(bytes) - 1)
                /\ SliceOk(Len(bytes), out[i].r.start_key, out[i].r.end_key)
                /\ SliceOk(Len(bytes), out[i].r.end_key, Len(bytes) - 1)
          /\ out[i].r.eq_pos >= 0 =>
                /\ SliceOk(Len(bytes), out[i].r.end_key, out[i].r.eq_pos)
                /\ SliceOk(Len(bytes), out[i].r.eq_pos + 1, Len(bytes) - 1)
          /\ IsAttr(i) =>
                /\ SliceOk(Len(bytes), out[i].r.start_val, Len(bytes))
                /\ SliceOk(Len(bytes), out[i].r.start_val, out[i].r.end_val)
    /\ \A k \in 1..Len(consumed) :
          /\ 0 <= consumed[k][1]
          /\ consumed[k][1] < consumed[k][2]
          /\ consumed[k][2] < Len(bytes)

\* next called on a one-byte buffer from offset 0, where len - 1 is 0
C19_Witness ==
    /\ Len(bytes) = 1
    /\ start_offset = 0
    /\ Len(out) >= 1
    /\ IsNone(1)
    /\ position = 1

-----------------------------------------------------------------------------
(* C20 *)

\* a second scanner over the same buffer from the same start offset, run
\* with enforcement off: the result of its n-th call of next (its fields as
\* constructed, for n = 0)
RECURSIVE Unchecked(_)
Unchecked(n) ==
    IF n = 0 THEN Self(start_offset, FALSE, <<>>)
    ELSE LET prev == Unchecked(n - 1)
         IN  Attributes_next(bytes, prev.position, prev.exit, FALSE,
                             prev.consumed)

\* what the second scanner's n-th call returned
UncheckedOutcome(n) ==
    LET r == Unchecked(n)
    IN  [kind |-> r.kind, err |-> r.err, e1 |-> r.e1, e2 |-> r.e2,
         key |-> IF r.kind = "Attr" THEN <<r.start_key, r.end_key>> ELSE <<>>,
         value |-> IF r.kind = "Attr" THEN <<r.start_val, r.end_val>>
                   ELSE <<>>]

AllChecksOn == \A i \in Calls : out[i].wc

\* call i returned one of the errors only enforcement raises
Rejected(i) ==
    \/ ErrIs(i, "NameWithQuote")
    \/ ErrIs(i, "DuplicatedAttribute")
    \/ ErrIs(i, "NoEqAfterName")

\* C20: a scanner run with enforcement on and a scanner run with it off over
\* the same buffer return the same result call by call (the same attribute,
\* the same UnquotedValue error, the same None, the same position) up to the
\* first call on which the first returns NameWithQuote, DuplicatedAttribute
\* or NoEqAfterName.
C20_ChecksOnlyReject ==
    AllChecksOn =>
        \A i \in Calls :
            (\A h \in 1..i : ~Rejected(h)) =>
                /\ Outcome(i) = UncheckedOutcome(i)
                /\ out[i].r.position = Unchecked(i).position

\* with enforcement on: an attribute, a second attribute, and the call after
\* them
C20_Witness ==
    /\ AllChecksOn
    /\ Len(out) >= 3
    /\ IsAttr(1) /\ IsAttr(2)
    /\ ~Rejected(3)
    /\ Len(consumed) = 2

=============================================================================
